---- MODULE Spec2Model ----
(***************************************************************************)
(* Model of extract_features.main (feature extraction driver) and of the   *)
(* part of train_models_CNN_LSTM_CNNLSTM.main that reads its output back.  *)
(*                                                                         *)
(* Spec      one run of extract_features.main, step by step, followed by   *)
(*           the training script reading the run's folder.                 *)
(* SpecRuns  two runs of extract_features.main against one wall clock and  *)
(*           one file system (output-folder naming only).                  *)
(*                                                                         *)
(* The helper packages feature_extraction_scripts.* are imported by the    *)
(* sources but are not part of them; their operators below follow the      *)
(* written specification of the components (Class Balancer, Split          *)
(* Assigner, Dataset Writer).                                              *)
(***************************************************************************)
EXTENDS Integers, Sequences, FiniteSets, TLC

\* ------------------------------------------------------------------ bounds
MaxLabels == 2          \* most label sub-directories in the data directory
MaxCount == 10          \* most recordings of one label
MaxMonth == 2           \* months the wall clock runs through
MaxDay == 2             \* days of a month the wall clock runs through
MaxSecond == 1          \* last second of the wall clock's minute

\* Python's None for the optional integer arguments
None == -1

\* ---------------------------------------------------------- input domains
FeatureTypes == {"mfcc", "fbank", "stft"}
NumFilterArgs == {None, 13, 40}
DomFreqArgs == {"True", "False", "None"}     \* Python values True, False, None
NoisePathArgs == {"None", "noise.wav"}
TimestepArgs == {None, 3}
ContextWindowArgs == {None, 2}
LimitArgs == {None, 50}                      \* limit as a percentage (.5 = 50)
Counts == {3, MaxCount}
Answers == {<<>>, <<"Y">>, <<"y", "e", "s">>, <<"n">>, <<"N", "O">>}

LabelNames == <<"zero", "one", "two", "three", "four">>
SplitNames == <<"train", "val", "test">>

VARIABLES
    \* ---- one run of extract_features.main
    pc,                       \* position in main
    args,                     \* the arguments main was called with
    data,                     \* recordings per label sub-directory (the data directory)
    num_filters, timesteps, context_window, num_feature_columns, frame_width,
    time_stamp, curr_folder,
    labels_class,
    train_val_test_filenames,
    max_num_per_class,
    max_nums_train_val_test,
    dict_class_dataset_index_list,
    dataset_index,            \* loop variable i of the extraction loop
    calls,                    \* the calls of featfun.save_feats2npy made so far
    assigner_calls,           \* the targets handed to assign_indices_train_val_test
    dirs,                     \* file system: directories made
    csv_files,                \* file system: csv files, path -> rows
    npy_files,                \* file system: array files written
    cause,                    \* which path main took
    result,                   \* main's return value: "none", "True", "False"
    stdout_folder,            \* folder name printed for the training script
    \* ---- the training script
    tr_pc, feats,
    \* ---- several runs (SpecRuns)
    clock, run_pc, run_ft, run_folder, writers

mainVars == <<pc, args, data, num_filters, timesteps, context_window,
              num_feature_columns, frame_width, time_stamp, curr_folder,
              labels_class, train_val_test_filenames, max_num_per_class,
              max_nums_train_val_test, dict_class_dataset_index_list,
              dataset_index, calls, assigner_calls, dirs, csv_files, npy_files,
              cause, result, stdout_folder>>
trainVars == <<tr_pc, feats>>
runsVars == <<clock, run_pc, run_ft, run_folder, writers>>
vars == <<mainVars, trainVars, runsVars>>

\* ------------------------------------------------------- pure helpers
Min(S) == CHOOSE m \in S : \A x \in S : m <= x

RECURSIVE SumSeq(_)
SumSeq(s) == IF s = <<>> THEN 0 ELSE Head(s) + SumSeq(Tail(s))

Digits == <<"0", "1", "2", "3", "4", "5", "6", "7", "8", "9">>

\* str(n) for a non-negative int: its decimal digits
RECURSIVE str(_)
str(n) == IF n < 10 THEN <<Digits[n + 1]>>
          ELSE str(n \div 10) \o <<Digits[(n % 10) + 1]>>

DigitVal(c) == CHOOSE d \in 0..9 : Digits[d + 1] = c

\* int(s) for a string of decimal digits
RECURSIVE int(_)
int(s) == IF Len(s) = 1 THEN DigitVal(s[1])
          ELSE 10 * int(SubSeq(s, 1, Len(s) - 1)) + DigitVal(s[Len(s)])

\* what csv.writer writes for a value: "" for None, str(value) otherwise
csv_int(n) == IF n = None THEN <<>> ELSE str(n)
csv_bool(b) == IF b THEN <<"True">> ELSE <<"False">>
csv_text(s) == IF s = "None" THEN <<>> ELSE <<s>>

\* str.lower() on the answers typed at the prompt
LowerChar(c) == CASE c = "Y" -> "y" [] c = "N" -> "n" [] c = "O" -> "o" [] OTHER -> c
lower(s) == [i \in 1..Len(s) |-> LowerChar(s[i])]

\* get_date: day, hour, minute, second of the wall clock (no month, no year)
get_date(t) == <<t.day, t.hour, t.minute, t.second>>

\* "{}_models_{}".format(feature_type,time_stamp)
CurrFolder(feature_type, stamp) == <<feature_type, "_models_", stamp>>

\* a path: the directories before the run's folder, the folder, what follows, extension
Path(root, folder, rel, ext) == [root |-> root, folder |-> folder, rel |-> rel, ext |-> ext]

\* the file a path names: "." and empty components do not count
NormPath(p) == [p EXCEPT !.root = SelectSeq(p.root, LAMBDA c : c # "." /\ c # ""),
                         !.rel = SelectSeq(p.rel, LAMBDA c : c # "." /\ c # "")]

\* head_folder = "./ml_speech_projects/" + curr_folder
HeadRoot == <<".", "ml_speech_projects">>

\* ------------------------------------------- extract_features.main, pure parts
\* lines 21-24: the default filter count
DefaultNumFilters(nf, feature_type) ==
    IF nf = None /\ feature_type = "stft" THEN 201
    ELSE IF nf = None /\ feature_type # "stft" THEN 40
    ELSE nf

\* lines 25-28
DefaultTimesteps(t) == IF t = None THEN 5 ELSE t
DefaultContextWindow(c) == IF c = None THEN 5 ELSE c

\* lines 29-34: "if dom_freq is not False" holds for every value but False
NumFeatureColumns(nf, delta, dom_freq) ==
    (IF delta THEN nf * 3 ELSE nf) + (IF dom_freq # "False" THEN 1 ELSE 0)

\* line 38
FrameWidth(cw) == cw * 2 + 1

\* line 72: the answers that confirm the labels
Confirms(answer) ==
    (\E i \in 1..Len(answer) : lower(answer)[i] = "y") \/ lower(answer) = <<>>

\* ExitApp handed on to the caller instead of ending the process
OnExitAppReraise == "raised"

\* lines 134-135 and 136-139: what main does with ExitApp and with IndexError
OnExitApp == "sys_exit"
OnIndexError == "sys_exit"

\* the split's directory named the other way round
NewPathSwapped(folder, i) == Path(HeadRoot, folder, <<i \o "_data", "">>, "")

\* lines 88-91: the directory and the file name of split i
NewPath(folder, i) == Path(HeadRoot, folder, <<"data_" \o i, "">>, "")
FeaturesFilename(folder, i) ==
    [NewPath(folder, i) EXCEPT !.rel = @ \o <<i \o "_features">>]

\* the settings with the filter count logged as the total
dict_info_original_as_total ==
    << <<"limit", csv_int(args.limit)>>,
       <<"features", <<args.feature_type>> >>,
       <<"num original features", csv_int(num_filters)>>,
       <<"num total features", csv_int(num_filters)>>,
       <<"delta", csv_bool(args.delta)>>,
       <<"dominant frequency", csv_text(args.dom_freq)>>,
       <<"noise", csv_bool(args.noise)>>,
       <<"timesteps", csv_int(timesteps)>>,
       <<"context window", csv_int(context_window)>>,
       <<"num classes", csv_int(Len(labels_class))>> >>

\* line 110: the settings that are logged, in the order of the dictionary
dict_info_feature_extraction ==
    << <<"limit", csv_int(args.limit)>>,
       <<"features", <<args.feature_type>> >>,
       <<"num original features", csv_int(num_filters)>>,
       <<"num total features", csv_int(num_feature_columns)>>,
       <<"delta", csv_bool(args.delta)>>,
       <<"dominant frequency", csv_text(args.dom_freq)>>,
       <<"noise", csv_bool(args.noise)>>,
       <<"timesteps", csv_int(timesteps)>>,
       <<"context window", csv_int(context_window)>>,
       <<"num classes", csv_int(Len(labels_class))>> >>

\* the limit applied to the cap before the split sizes are derived
SplitSizesArgLimited(max_num, limit) ==
    IF limit = None THEN max_num ELSE (max_num * limit) \div 100

\* line 127: the count the split sizes are derived from (the limit plays no part)
SplitSizesArg(max_num, limit) == max_num

\* the error of the check swallowed
AfterCheckIgnored(disjoint) == "extract"

\* lines 133-139: where main goes after check_4_dataset_mixing; its error is
\* neither ExitApp nor IndexError, so it leaves main
AfterCheck(disjoint) == IF disjoint THEN "extract" ELSE "raised"

\* line 152: the arguments of save_feats2npy for split i (0, 1, 2)
ExtractionCall(i) ==
    [dataset_index |-> i,
     num_labels |-> Len(labels_class),
     data_filename4saving |-> train_val_test_filenames[i + 1],
     max_num_samples |-> max_nums_train_val_test[i + 1],
     feature_type |-> args.feature_type,
     num_filters |-> num_filters,
     num_feature_columns |-> num_feature_columns,
     timesteps |-> timesteps,
     frame_width |-> frame_width,
     limit |-> args.limit,
     delta |-> args.delta,
     dom_freq |-> args.dom_freq,
     noise_wavefile |-> args.noise_path]

\* a failed split not ending the loop
AfterExtractionContinue(extraction_completed) == "extract"

\* lines 154-158 and 168-173: after a split's extraction
AfterExtraction(extraction_completed) ==
    IF extraction_completed THEN "extract" ELSE "returned"

\* ----------------------------------- the helper packages, from the specification
collect_labels(d) == SubSeq(LabelNames, 1, Len(d))

\* the label of every recording, label by label
labels_of_wavefiles(d) ==
    [k \in 1..SumSeq(d) |->
        LabelNames[CHOOSE j \in 1..Len(d) :
            /\ k > SumSeq(SubSeq(d, 1, j - 1))
            /\ k <= SumSeq(SubSeq(d, 1, j))]]

\* the fewest recordings any label has
get_max_samples_per_class(labels, labels_wavefile) ==
    Min({Cardinality({k \in DOMAIN labels_wavefile : labels_wavefile[k] = labels[j]}) :
            j \in DOMAIN labels})

\* 80/10/10 of the cap, rounded down, the remainder to train
get_max_nums_train_val_test(cap) ==
    <<cap - 2 * (cap \div 10), cap \div 10, cap \div 10>>

\* the indices (from 0) of each label's recordings
make_dict_class_index(labels, labels_wavefile) ==
    [j \in DOMAIN labels |->
        SelectSeq([k \in 1..Len(labels_wavefile) |-> k - 1],
                  LAMBDA x : labels_wavefile[x + 1] = labels[j])]

Reverse(s) == [k \in 1..Len(s) |-> s[Len(s) + 1 - k]]
Slice(s, from, n) == {s[k] : k \in (from + 1)..(from + n)}

\* one outcome of the random assignment: consecutive groups of a shuffled list
Partitioned(shuffled, nums) ==
    [j \in DOMAIN shuffled |->
        <<Slice(shuffled[j], 0, nums[1]),
          Slice(shuffled[j], nums[1], nums[2]),
          Slice(shuffled[j], nums[1] + nums[2], nums[3])>>]

\* an assignment in which validation recordings are also training recordings
Overlapping(shuffled, nums) ==
    [j \in DOMAIN shuffled |->
        <<Slice(shuffled[j], 0, nums[1]),
          Slice(shuffled[j], 0, nums[2]),
          Slice(shuffled[j], nums[1] + nums[2], nums[3])>>]

\* the assignments the Split Assigner may hand back; the overlapping one is
\* what check_4_dataset_mixing exists to catch
assign_indices_train_val_test(index_lists, nums) ==
    { Partitioned(index_lists, nums),
      Partitioned([j \in DOMAIN index_lists |-> Reverse(index_lists[j])], nums),
      Overlapping(index_lists, nums) }

\* TRUE when the check passes, FALSE when it raises
check_4_dataset_mixing(assigned) ==
    \A j \in DOMAIN assigned :
        /\ assigned[j][1] \cap assigned[j][2] = {}
        /\ assigned[j][1] \cap assigned[j][3] = {}
        /\ assigned[j][2] \cap assigned[j][3] = {}

\* the files the helpers write into the run's folder
LogPath(folder) == Path(HeadRoot, folder, <<"features_log">>, "csv")
LabelsPath(folder) == Path(HeadRoot, folder, <<"labels_encoded">>, "csv")
BalancePath(folder) == Path(HeadRoot, folder, <<"class_balance_log">>, "csv")
create_save_dict_labels_encode(labels) ==
    [j \in DOMAIN labels |-> <<labels[j], str(j - 1)>>]
\* numpy's save appends the extension to the name it is given
ArrayFile(filename) == NormPath([filename EXCEPT !.ext = "npy"])

\* ------------------------------------------------------------- initial state
Args ==
    [feature_type : FeatureTypes, num_filters : NumFilterArgs, delta : BOOLEAN,
     dom_freq : DomFreqArgs, noise : BOOLEAN, noise_path : NoisePathArgs,
     timesteps : TimestepArgs, context_window : ContextWindowArgs,
     limit : LimitArgs]

DataDirs == UNION {[1..n -> Counts] : n \in 1..MaxLabels}

Time0 == [month |-> 1, day |-> 1, hour |-> 0, minute |-> 0, second |-> 0]

InitMain ==
    /\ pc = "called"
    /\ num_filters = None /\ timesteps = None /\ context_window = None
    /\ num_feature_columns = None /\ frame_width = None
    /\ time_stamp = <<>> /\ curr_folder = <<>>
    /\ labels_class = <<>>
    /\ train_val_test_filenames = <<>>
    /\ max_num_per_class = None
    /\ max_nums_train_val_test = <<>>
    /\ dict_class_dataset_index_list = <<>>
    /\ dataset_index = 0
    /\ calls = <<>>
    /\ assigner_calls = <<>>
    /\ dirs = {}
    /\ csv_files = <<>>
    /\ npy_files = {}
    /\ cause = "running"
    /\ result = "none"
    /\ stdout_folder = <<>>

InitTrain == tr_pc = "idle" /\ feats = <<>>

\* no further runs in the specification of one run
NoRuns ==
    /\ clock = Time0
    /\ run_pc = <<>> /\ run_ft = <<>> /\ run_folder = <<>>
    /\ writers = <<>>

Init ==
    /\ args \in Args
    /\ data \in DataDirs
    /\ InitMain /\ InitTrain /\ NoRuns

\* --------------------------------------------- extract_features.main, step by step
\* lines 19-38
SetDefaults ==
    /\ pc = "called"
    /\ num_filters' = DefaultNumFilters(args.num_filters, args.feature_type)
    /\ timesteps' = DefaultTimesteps(args.timesteps)
    /\ context_window' = DefaultContextWindow(args.context_window)
    /\ num_feature_columns' = NumFeatureColumns(num_filters', args.delta, args.dom_freq)
    /\ frame_width' = FrameWidth(context_window')
    /\ pc' = "defaults"
    /\ UNCHANGED <<args, data, time_stamp, curr_folder, labels_class,
                   train_val_test_filenames, max_num_per_class,
                   max_nums_train_val_test, dict_class_dataset_index_list,
                   dataset_index, calls, assigner_calls, dirs, csv_files,
                   npy_files, cause, result, stdout_folder>>
    /\ UNCHANGED <<trainVars, runsVars>>

\* lines 43-50
HouseKeeping ==
    /\ pc = "defaults"
    /\ time_stamp' = get_date(clock)
    /\ curr_folder' = CurrFolder(args.feature_type, time_stamp')
    /\ dirs' = dirs \cup {NormPath(Path(HeadRoot, curr_folder', <<>>, ""))}
    /\ pc' = "housekeeping"
    /\ UNCHANGED <<args, data, num_filters, timesteps, context_window,
                   num_feature_columns, frame_width, labels_class,
                   train_val_test_filenames, max_num_per_class,
                   max_nums_train_val_test, dict_class_dataset_index_list,
                   dataset_index, calls, assigner_calls, csv_files,
                   npy_files, cause, result, stdout_folder>>
    /\ UNCHANGED <<trainVars, runsVars>>

\* lines 60-75 with the handler of lines 134-135
CollectLabels ==
    /\ pc = "housekeeping"
    /\ labels_class' = collect_labels(data)
    /\ \E correct_labels \in Answers :
          IF Confirms(correct_labels)
          THEN pc' = "confirmed" /\ cause' = cause
          ELSE pc' = OnExitApp /\ cause' = "declined"
    /\ UNCHANGED <<args, data, num_filters, timesteps, context_window,
                   num_feature_columns, frame_width, time_stamp, curr_folder,
                   train_val_test_filenames, max_num_per_class,
                   max_nums_train_val_test, dict_class_dataset_index_list,
                   dataset_index, calls, assigner_calls, dirs, csv_files,
                   npy_files, result, stdout_folder>>
    /\ UNCHANGED <<trainVars, runsVars>>

\* lines 83-96
MakeDatasetDirs ==
    /\ pc = "confirmed"
    /\ csv_files' = (NormPath(LabelsPath(curr_folder)) :>
                        create_save_dict_labels_encode(labels_class)) @@ csv_files
    /\ train_val_test_filenames' =
          [k \in 1..3 |-> FeaturesFilename(curr_folder, SplitNames[k])]
    /\ dirs' = dirs \cup {NormPath(NewPath(curr_folder, SplitNames[k])) : k \in 1..3}
    /\ pc' = "dirs"
    /\ UNCHANGED <<args, data, num_filters, timesteps, context_window,
                   num_feature_columns, frame_width, time_stamp, curr_folder,
                   labels_class, max_num_per_class,
                   max_nums_train_val_test, dict_class_dataset_index_list,
                   dataset_index, calls, assigner_calls,
                   npy_files, cause, result, stdout_folder>>
    /\ UNCHANGED <<trainVars, runsVars>>

\* lines 104-112 with the handler of lines 136-139: an IndexError while the
\* recordings are collected, or the cap found and the two logs written
OrganizeData ==
    /\ pc = "dirs"
    /\ \E index_error \in BOOLEAN :
          IF index_error
          THEN /\ pc' = OnIndexError
               /\ cause' = "index_error"
               /\ UNCHANGED <<max_num_per_class, csv_files>>
          ELSE /\ max_num_per_class' =
                     get_max_samples_per_class(labels_class, labels_of_wavefiles(data))
               /\ csv_files' =
                     (NormPath(LogPath(curr_folder)) :> dict_info_feature_extraction)
                     @@ (NormPath(BalancePath(curr_folder)) :>
                            << <<"max num per class", str(max_num_per_class')>> >>)
                     @@ csv_files
               /\ pc' = "organized"
               /\ cause' = cause
    /\ UNCHANGED <<args, data, num_filters, timesteps, context_window,
                   num_feature_columns, frame_width, time_stamp, curr_folder,
                   labels_class, train_val_test_filenames,
                   max_nums_train_val_test, dict_class_dataset_index_list,
                   dataset_index, calls, assigner_calls, dirs,
                   npy_files, result, stdout_folder>>
    /\ UNCHANGED <<trainVars, runsVars>>

\* lines 117-133
AssignSplits ==
    /\ pc = "organized"
    /\ max_nums_train_val_test' =
          get_max_nums_train_val_test(SplitSizesArg(max_num_per_class, args.limit))
    /\ assigner_calls' = Append(assigner_calls, max_nums_train_val_test')
    /\ dict_class_dataset_index_list' \in
          assign_indices_train_val_test(
              make_dict_class_index(labels_class, labels_of_wavefiles(data)),
              max_nums_train_val_test')
    /\ pc' = AfterCheck(check_4_dataset_mixing(dict_class_dataset_index_list'))
    /\ cause' = IF check_4_dataset_mixing(dict_class_dataset_index_list')
                THEN cause ELSE "mixing"
    /\ UNCHANGED <<args, data, num_filters, timesteps, context_window,
                   num_feature_columns, frame_width, time_stamp, curr_folder,
                   labels_class, train_val_test_filenames, max_num_per_class,
                   dataset_index, calls, dirs, csv_files,
                   npy_files, result, stdout_folder>>
    /\ UNCHANGED <<trainVars, runsVars>>

\* lines 149-158 and 168-173: one round of the loop; a split that does not
\* complete leaves no array file, raises FeatureExtractionFail, which main
\* catches, and main returns False
ExtractSplit ==
    /\ pc = "extract"
    /\ dataset_index < 3
    /\ \E extraction_completed \in BOOLEAN :
          /\ calls' = Append(calls, [call |-> ExtractionCall(dataset_index),
                                     completed |-> extraction_completed])
          /\ npy_files' = IF extraction_completed
                          THEN npy_files \cup
                               {ArrayFile(train_val_test_filenames[dataset_index + 1])}
                          ELSE npy_files
          /\ pc' = AfterExtraction(extraction_completed)
          /\ dataset_index' = IF pc' = "extract" THEN dataset_index + 1 ELSE dataset_index
          /\ result' = IF pc' = "returned" THEN "False" ELSE result
          /\ cause' = IF pc' = "returned" THEN "split_failed" ELSE cause
    /\ UNCHANGED <<args, data, num_filters, timesteps, context_window,
                   num_feature_columns, frame_width, time_stamp, curr_folder,
                   labels_class, train_val_test_filenames, max_num_per_class,
                   max_nums_train_val_test, dict_class_dataset_index_list,
                   assigner_calls, dirs, csv_files, stdout_folder>>
    /\ UNCHANGED <<trainVars, runsVars>>

\* lines 160-166
ReturnTrue ==
    /\ pc = "extract"
    /\ dataset_index = 3
    /\ stdout_folder' = curr_folder
    /\ result' = "True"
    /\ cause' = "success"
    /\ pc' = "returned"
    /\ UNCHANGED <<args, data, num_filters, timesteps, context_window,
                   num_feature_columns, frame_width, time_stamp, curr_folder,
                   labels_class, train_val_test_filenames, max_num_per_class,
                   max_nums_train_val_test, dict_class_dataset_index_list,
                   dataset_index, calls, assigner_calls, dirs, csv_files,
                   npy_files>>
    /\ UNCHANGED <<trainVars, runsVars>>

\* ------------------------------------- train_models_CNN_LSTM_CNNLSTM.main
\* line 61 and lines 116, 119, 145: the paths built from the folder typed in
SettingsFile(project_head_folder) ==
    Path(<<".", "ml_speech_projects">>, project_head_folder, <<"features_log">>, "csv")
FeaturesFile(project_head_folder, i) ==
    Path(<<"ml_speech_projects">>, project_head_folder,
         <<"data_" \o i, i \o "_features">>, "npy")

\* line 64: the dictionary made of the rows, a later row replacing an earlier one
feats_dict(rows) ==
    [key \in {rows[k][1] : k \in DOMAIN rows} |->
        rows[CHOOSE k \in DOMAIN rows :
                /\ rows[k][1] = key
                /\ \A m \in DOMAIN rows : rows[m][1] = key => m <= k][2]]

\* line 75
TrainFrameWidth(cw) == cw * 2 + 1

\* lines 42-75: the folder typed in is the one extraction printed
ReadFeatureSettings ==
    /\ tr_pc = "idle"
    /\ stdout_folder # <<>>
    /\ NormPath(SettingsFile(stdout_folder)) \in DOMAIN csv_files
    /\ LET d == feats_dict(csv_files[NormPath(SettingsFile(stdout_folder))])
       IN feats' = [num_labels |-> int(d["num classes"]),
                    num_features |-> int(d["num total features"]),
                    timesteps |-> int(d["timesteps"]),
                    context_window |-> int(d["context window"]),
                    frame_width |-> TrainFrameWidth(int(d["context window"])),
                    noise |-> d["noise"]]
    /\ tr_pc' = "settings"
    /\ UNCHANGED <<mainVars, runsVars>>

\* lines 116-146: the three array files are loaded; a missing one raises
LoadArrays ==
    /\ tr_pc = "settings"
    /\ tr_pc' = IF \A k \in 1..3 :
                     NormPath(FeaturesFile(stdout_folder, SplitNames[k])) \in npy_files
                THEN "loaded" ELSE "failed"
    /\ UNCHANGED <<feats, mainVars, runsVars>>

Next ==
    \/ SetDefaults
    \/ HouseKeeping
    \/ CollectLabels
    \/ MakeDatasetDirs
    \/ OrganizeData
    \/ AssignSplits
    \/ ExtractSplit
    \/ ReturnTrue
    \/ ReadFeatureSettings
    \/ LoadArrays

Spec == Init /\ [][Next]_vars

\* ------------------------------------------------ several runs, one wall clock
Runs == {1, 2}
Times == [month : 1..MaxMonth, day : 1..MaxDay, hour : {0}, minute : {0},
          second : 0..MaxSecond]
Later(t, u) ==
    \/ u.month > t.month
    \/ u.month = t.month /\ u.day > t.day
    \/ u.month = t.month /\ u.day = t.day /\ u.second > t.second

InitRuns ==
    /\ args = [feature_type |-> "fbank", num_filters |-> 40, delta |-> TRUE,
               dom_freq |-> "False", noise |-> TRUE, noise_path |-> "noise.wav",
               timesteps |-> 5, context_window |-> 5, limit |-> 5]
    /\ data = <<MaxCount>>
    /\ InitMain /\ InitTrain
    /\ clock = Time0
    /\ run_pc = [r \in Runs |-> "called"]
    /\ run_ft = [r \in Runs |-> ""]
    /\ run_folder = [r \in Runs |-> <<>>]
    /\ writers = <<>>

\* time passes
Tick ==
    /\ \E t \in Times : Later(clock, t) /\ clock' = t
    /\ UNCHANGED <<run_pc, run_ft, run_folder, writers, mainVars, trainVars>>

\* lines 43-50 of run r: the folder is named after the clock and made if missing
RunHouseKeeping(r) ==
    /\ run_pc[r] = "called"
    /\ \E feature_type \in FeatureTypes :
          /\ run_ft' = [run_ft EXCEPT ![r] = feature_type]
          /\ run_folder' = [run_folder EXCEPT ![r] = CurrFolder(feature_type, get_date(clock))]
    /\ writers' = IF run_folder'[r] \in DOMAIN writers THEN writers
                  ELSE (run_folder'[r] :> {}) @@ writers
    /\ run_pc' = [run_pc EXCEPT ![r] = "housekeeping"]
    /\ UNCHANGED <<clock, mainVars, trainVars>>

\* lines 83-112 of run r: label encoding and logs are written into the folder
RunWriteLogs(r) ==
    /\ run_pc[r] = "housekeeping"
    /\ writers' = [writers EXCEPT ![run_folder[r]] = @ \cup {r}]
    /\ run_pc' = [run_pc EXCEPT ![r] = "organized"]
    /\ UNCHANGED <<clock, run_ft, run_folder, mainVars, trainVars>>

\* lines 149-166 of run r: the array files are written into the folder
RunExtract(r) ==
    /\ run_pc[r] = "organized"
    /\ writers' = [writers EXCEPT ![run_folder[r]] = @ \cup {r}]
    /\ run_pc' = [run_pc EXCEPT ![r] = "returned"]
    /\ UNCHANGED <<clock, run_ft, run_folder, mainVars, trainVars>>

NextRuns ==
    \/ Tick
    \/ \E r \in Runs : RunHouseKeeping(r)
    \/ \E r \in Runs : RunWriteLogs(r)
    \/ \E r \in Runs : RunExtract(r)

SpecRuns == InitRuns /\ [][NextRuns]_vars

\* ======================================================================
\* Properties
\* ======================================================================
MinCount == Min({data[j] : j \in DOMAIN data})
LimitedCap(cap, limit) == (cap * limit) \div 100
BaseFilters ==
    IF args.num_filters # None THEN args.num_filters
    ELSE IF args.feature_type = "stft" THEN 201 ELSE 40
\* a value switches the dominant frequency on when it is true
DomFreqEnabled(v) == v = "True"
ConsumedKeys == {"num classes", "num total features", "timesteps", "context window"}

\* C1: the feature-column count is base_filters * (3 if delta else 1) plus 1
\* when the dominant frequency is enabled and plus 0 for any value that does
\* not enable it.
C1_FeatureColumns ==
    pc # "called" =>
        num_feature_columns =
            BaseFilters * (IF args.delta THEN 3 ELSE 1)
            + (IF DomFreqEnabled(args.dom_freq) THEN 1 ELSE 0)

\* C2 as stated: on every path main returns a boolean or raises to its
\* caller and never ends the process itself.
C2_NeverTerminatesProcess ==
    cause # "running" =>
        \/ pc = "returned" /\ result \in {"True", "False"}
        \/ pc = "raised"

\* C2 as amended: main returns False when a split's extraction fails and True
\* on full success, and ends the process itself with sys.exit() when the user
\* declines the labels or an IndexError occurs while the data is organized.
C2_ExitPaths ==
    /\ cause \in {"declined", "index_error"} => pc = "sys_exit" /\ result = "none"
    /\ cause = "split_failed" => pc = "returned" /\ result = "False"
    /\ cause = "success" => pc = "returned" /\ result = "True"
    /\ pc = "sys_exit" => cause \in {"declined", "index_error"}

C2_Witness == pc = "sys_exit" /\ cause = "declined" /\ labels_class # <<>>

\* C3: what the training script reads back under 'num classes', 'num total
\* features', 'timesteps' and 'context window' is what main handed to every
\* split's extraction (5 for an omitted timesteps or context_window), and the
\* frame_width it rebuilds is the one used during extraction.
C3_RoundTrip ==
    tr_pc # "idle" =>
        /\ \A k \in DOMAIN calls :
              /\ calls[k].call.num_labels = feats.num_labels
              /\ calls[k].call.num_feature_columns = feats.num_features
              /\ calls[k].call.timesteps = feats.timesteps
              /\ calls[k].call.frame_width = feats.frame_width
        /\ feats.num_labels = Len(data)
        /\ feats.context_window = context_window
        /\ feats.timesteps = IF args.timesteps = None THEN 5 ELSE args.timesteps
        /\ feats.context_window =
              IF args.context_window = None THEN 5 ELSE args.context_window

C3_Witness ==
    tr_pc = "settings" /\ Len(calls) = 3 /\ args.timesteps = None /\ args.delta

\* C4: when main has returned True the settings log with the four keys is in
\* the run's folder and each array file the training script loads was the
\* target of an extraction pass of this run that completed.
C4_SuccessArtifacts ==
    result = "True" =>
        /\ NormPath(SettingsFile(curr_folder)) \in DOMAIN csv_files
        /\ ConsumedKeys \subseteq
              DOMAIN feats_dict(csv_files[NormPath(SettingsFile(curr_folder))])
        /\ \A k \in 1..3 :
              /\ NormPath(FeaturesFile(curr_folder, SplitNames[k])) \in npy_files
              /\ \E c \in DOMAIN calls :
                    /\ calls[c].completed
                    /\ ArrayFile(calls[c].call.data_filename4saving) =
                          NormPath(FeaturesFile(curr_folder, SplitNames[k]))

C4_Witness == result = "True" /\ tr_pc = "loaded"

\* C5: no split is extracted before the overlap check has passed, and when the
\* check raises the run is over with no split's extraction ever started.
C5_CheckBeforeExtraction ==
    /\ calls # <<>> =>
          /\ Len(assigner_calls) = 1
          /\ check_4_dataset_mixing(dict_class_dataset_index_list)
    /\ pc \in {"extract", "returned"} =>
          check_4_dataset_mixing(dict_class_dataset_index_list)
    /\ cause = "mixing" => pc = "raised" /\ calls = <<>> /\ npy_files = {}

C5_Witness ==
    /\ cause = "mixing" /\ pc = "raised"
    /\ ~check_4_dataset_mixing(dict_class_dataset_index_list)

\* C6: two runs never use the same output folder.
C6_FoldersUnique ==
    \A r1, r2 \in Runs :
        (r1 # r2 /\ run_pc[r1] # "called" /\ run_pc[r2] # "called")
            => run_folder[r1] # run_folder[r2]

\* C7 as stated: with a limit, the split sizes handed to the Split Assigner
\* and to each split's extraction come from the limited cap; without one,
\* from the minimum class count.
C7_SizesFromLimitedCap ==
    LET cap == IF args.limit = None THEN MinCount ELSE LimitedCap(MinCount, args.limit)
    IN /\ \A k \in DOMAIN assigner_calls :
             assigner_calls[k] = get_max_nums_train_val_test(cap)
       /\ \A k \in DOMAIN calls :
             calls[k].call.max_num_samples = get_max_nums_train_val_test(cap)[k]

\* C7 as amended: with or without a limit, the split sizes handed to the
\* Split Assigner and to each split's extraction come from the minimum class
\* count; the limit is handed unchanged to each split's extraction.
C7_SizesFromMinCount ==
    /\ \A k \in DOMAIN assigner_calls :
          assigner_calls[k] = get_max_nums_train_val_test(MinCount)
    /\ \A k \in DOMAIN calls :
          /\ calls[k].call.max_num_samples = get_max_nums_train_val_test(MinCount)[k]
          /\ calls[k].call.limit = args.limit

C7_Witness ==
    /\ args.limit # None /\ Len(calls) = 3 /\ MinCount = MaxCount
    /\ get_max_nums_train_val_test(MinCount) #
          get_max_nums_train_val_test(LimitedCap(MinCount, args.limit))

\* C8: for stft the base column count is 201 whatever num_filters is given:
\* with delta and dominant frequency off the total is 201.
C8_StftFixedBins ==
    (pc # "called" /\ args.feature_type = "stft" /\ ~args.delta
        /\ args.dom_freq = "False")
        => num_feature_columns = 201

\* C9: the splits are extracted in the order train, validation, test, each at
\* most once; a split that fails is the last one extracted and main returns
\* False; main returns True only after all three completed.
C9_SplitOrder ==
    /\ Len(calls) <= 3
    /\ \A k \in DOMAIN calls :
          /\ calls[k].call.dataset_index = k - 1
          /\ calls[k].call.data_filename4saving =
                FeaturesFilename(curr_folder, SplitNames[k])
          /\ ~calls[k].completed =>
                k = Len(calls) /\ pc = "returned" /\ result = "False"
    /\ result = "True" =>
          Len(calls) = 3 /\ \A k \in DOMAIN calls : calls[k].completed
    /\ result = "False" => ~calls[Len(calls)].completed

C9_Witness ==
    result = "False" /\ Len(calls) = 2 /\ calls[1].completed

\* C10: a noise waveform is handed to the Feature Extractor if and only if
\* noise is True.
C10_NoiseIffEnabled ==
    \A k \in DOMAIN calls :
        (calls[k].call.noise_wavefile # "None") <=> args.noise

====
